---------------------------- MODULE Spec2Model ----------------------------
(***************************************************************************)
(* A model of photoeccentric/photoeccentric.py: the transit-duration and   *)
(* density-ratio (g) functions, the two posteriors and the MCMC transit     *)
(* fit driver.                                                              *)
(*                                                                          *)
(* Numbers.  numpy's float64 values are modelled as decimal floating-point  *)
(* numbers [m |-> mantissa, x |-> exponent] of value m * 10^x, with a       *)
(* mantissa of four decimal digits (1000 <= |m| <= 9999, or m = 0), and     *)
(* the three IEEE special values NaN, +inf, -inf.  Arithmetic follows       *)
(* numpy: a division by zero gives inf or NaN, sqrt / arcsin / log outside  *)
(* their domain give NaN, every comparison with NaN is false.               *)
(***************************************************************************)
EXTENDS Integers, Sequences, FiniteSets, TLC

\* ------------------------------------------------------------------------
\* Decimal floating point
\* ------------------------------------------------------------------------

\* Mantissas are kept in MantLo .. MantHi (four significant digits).
MantLo == 10 * 100
MantHi == 10 * MantLo

\* The exponent value that marks the special values.
SpecialX == MantHi

NaN    == [m |-> 0,  x |-> SpecialX]
PosInf == [m |-> 1,  x |-> SpecialX]
NegInf == [m |-> -1, x |-> SpecialX]

IsNaN(a)    == a = NaN
IsInf(a)    == a = PosInf \/ a = NegInf
IsFinite(a) == a.x # SpecialX

Abs(n) == IF n < 0 THEN -n ELSE n
Sgn(n) == IF n < 0 THEN -1 ELSE IF n = 0 THEN 0 ELSE 1

RECURSIVE Pow10(_)
Pow10(k) == IF k <= 0 THEN 1 ELSE 10 * Pow10(k - 1)

\* Normalise a non-negative mantissa (round half up when digits are dropped).
RECURSIVE NormAbs(_, _)
NormAbs(m, x) ==
    IF m = 0 THEN <<0, 0>>
    ELSE IF m >= MantHi THEN NormAbs((m + 5) \div 10, x + 1)
    ELSE IF m < MantLo THEN NormAbs(m * 10, x - 1)
    ELSE <<m, x>>

\* The float of value m * 10^x.
F(m, x) ==
    LET r == NormAbs(Abs(m), x)
    IN  [m |-> Sgn(m) * r[1], x |-> r[2]]

Zero == F(0, 0)
One  == F(1, 0)
Two  == F(2, 0)
Half == F(5, -1)

Neg(a) == IF IsNaN(a) THEN NaN ELSE [m |-> -a.m, x |-> a.x]

\* Sign of a float that is not NaN: -1, 0 or 1.
Sign(a) == Sgn(a.m)

Add(a, b) ==
    IF IsNaN(a) \/ IsNaN(b) THEN NaN
    ELSE IF IsInf(a) /\ IsInf(b) THEN (IF a = b THEN a ELSE NaN)
    ELSE IF IsInf(a) THEN a
    ELSE IF IsInf(b) THEN b
    ELSE IF a.m = 0 THEN b
    ELSE IF b.m = 0 THEN a
    ELSE LET hi == IF a.x >= b.x THEN a ELSE b
             lo == IF a.x >= b.x THEN b ELSE a
             d  == hi.x - lo.x
         IN  IF d > 5 THEN hi
             ELSE F(hi.m * Pow10(d) + lo.m, lo.x)

Sub(a, b) == Add(a, Neg(b))

Mul(a, b) ==
    IF IsNaN(a) \/ IsNaN(b) THEN NaN
    ELSE IF IsInf(a) \/ IsInf(b)
         THEN (IF Sign(a) * Sign(b) = 0 THEN NaN
               ELSE IF Sign(a) * Sign(b) > 0 THEN PosInf ELSE NegInf)
    ELSE F(a.m * b.m, a.x + b.x)

Div(a, b) ==
    IF IsNaN(a) \/ IsNaN(b) THEN NaN
    ELSE IF IsInf(a)
         THEN (IF IsInf(b) THEN NaN
               ELSE IF Sign(a) * (IF b.m < 0 THEN -1 ELSE 1) > 0
                    THEN PosInf ELSE NegInf)
    ELSE IF IsInf(b) THEN Zero
    ELSE IF b.m = 0
         THEN (IF a.m = 0 THEN NaN
               ELSE IF a.m > 0 THEN PosInf ELSE NegInf)
    ELSE LET q == (Abs(a.m) * Pow10(5)) \div Abs(b.m)
         IN  F(Sgn(a.m) * Sgn(b.m) * q, a.x - b.x - 5)

\* Comparisons: false whenever an operand is NaN, as in IEEE arithmetic.
Lt(a, b) ==
    /\ ~IsNaN(a)
    /\ ~IsNaN(b)
    /\ a # b
    /\ IF IsInf(a) THEN a = NegInf
       ELSE IF IsInf(b) THEN b = PosInf
       ELSE Sign(Sub(a, b)) < 0
Le(a, b) == ~IsNaN(a) /\ ~IsNaN(b) /\ (a = b \/ Lt(a, b))
Gt(a, b) == Lt(b, a)
Ge(a, b) == Le(b, a)

Sq(a) == Mul(a, a)

\* Largest r in lo .. hi with r * r <= n  (lo * lo <= n).
RECURSIVE ISqrtIn(_, _, _)
ISqrtIn(n, lo, hi) ==
    IF lo >= hi THEN lo
    ELSE LET mid == (lo + hi + 1) \div 2
         IN  IF mid * mid <= n THEN ISqrtIn(n, mid, hi)
             ELSE ISqrtIn(n, lo, mid - 1)

\* np.sqrt: NaN for a negative argument.
Sqrt(a) ==
    IF IsNaN(a) THEN NaN
    ELSE IF a = PosInf THEN PosInf
    ELSE IF a.m < 0 THEN NaN
    ELSE IF a.m = 0 THEN Zero
    ELSE LET odd == (a.x % 2) = 1
             m1  == IF odd THEN a.m * 10 ELSE a.m
             x1  == IF odd THEN a.x - 1 ELSE a.x
             m2  == m1 * Pow10(4)
             x2  == x1 - 4
         IN  F(ISqrtIn(m2, 0, 46340), x2 \div 2)

\* Largest r in lo .. hi with r^3 <= n.
RECURSIVE ICbrtIn(_, _, _)
ICbrtIn(n, lo, hi) ==
    IF lo >= hi THEN lo
    ELSE LET mid == (lo + hi + 1) \div 2
         IN  IF mid * mid * mid <= n THEN ICbrtIn(n, mid, hi)
             ELSE ICbrtIn(n, lo, mid - 1)

\* np.cbrt: defined for every real, odd.
Cbrt(a) ==
    IF IsNaN(a) THEN NaN
    ELSE IF IsInf(a) THEN a
    ELSE IF a.m = 0 THEN Zero
    ELSE LET r   == a.x % 3
             m1  == Abs(a.m) * Pow10(r)
             x1  == a.x - r
             m2  == m1 * Pow10(3)
             x2  == x1 - 3
             y0  == F(ICbrtIn(m2, 0, 1290), x2 \div 3)
             \* one Newton step restores the fourth digit
             y1  == Sub(y0, Div(Sub(Mul(y0, Sq(y0)), F(Abs(a.m), a.x)),
                                Mul(F(3, 0), Sq(y0))))
         IN  IF a.m < 0 THEN Neg(y1) ELSE y1

\* The integer nearest to a * 10^s, for a finite float a.
ToFix(a, s) ==
    LET k == a.x + s
    IN  IF k >= 0 THEN a.m * Pow10(k)
        ELSE Sgn(a.m) * ((Abs(a.m) + (Pow10(-k) \div 2)) \div Pow10(-k))

\* pi, 2 pi and pi / 2 in micro-radians; pi as a float.
PiMicro     == 3141593
TwoPiMicro  == 6283185
HalfPiMicro == 1570796
Pi == F(PiMicro, -6)

\* sin of y / 10^4 radians, times 10^4, for |y| <= pi/2: the Taylor series
\* y - y^3/3! + y^5/5! - y^7/7! + y^9/9!.
SinFix(y) ==
    LET y2 == (y * y) \div 10000
        t3 == ((Abs(y) * y2) \div 10000) \div 6
        t5 == ((t3 * y2) \div 10000) \div 20
        t7 == ((t5 * y2) \div 10000) \div 42
        t9 == ((t7 * y2) \div 10000) \div 72
    IN  Sgn(y) * (Abs(y) - t3 + t5 - t7 + t9)

\* sin of r micro-radians, times 10^4, r any integer.
SinMicro(r) ==
    LET t == r % TwoPiMicro
        y == IF t <= HalfPiMicro THEN t
             ELSE IF t <= PiMicro + HalfPiMicro THEN PiMicro - t
             ELSE t - TwoPiMicro
    IN  SinFix(Sgn(y) * ((Abs(y) + 50) \div 100))

\* np.sin and np.cos of an argument in RADIANS.
Sin(a) ==
    IF ~IsFinite(a) THEN NaN
    ELSE F(SinMicro(ToFix(a, 6)), -4)
Cos(a) ==
    IF ~IsFinite(a) THEN NaN
    ELSE F(SinMicro(ToFix(a, 6) + HalfPiMicro), -4)

\* Largest y in lo .. hi (units of 10^-4 rad) with SinFix(y) <= s.
RECURSIVE ASinIn(_, _, _)
ASinIn(s, lo, hi) ==
    IF lo >= hi THEN lo
    ELSE LET mid == (lo + hi + 1) \div 2
         IN  IF SinFix(mid) <= s THEN ASinIn(s, mid, hi)
             ELSE ASinIn(s, lo, mid - 1)

\* np.arcsin: NaN outside [-1, 1].
ArcSin(a) ==
    IF ~IsFinite(a) THEN NaN
    ELSE IF Gt(a, One) \/ Lt(a, Neg(One)) THEN NaN
    ELSE LET s == ToFix(a, 4)
         IN  IF s >= 10000 THEN F(HalfPiMicro, -6)
             ELSE IF s <= -10000 THEN F(-HalfPiMicro, -6)
             ELSE IF s >= 0 THEN F(ASinIn(s, 0, 15708), -4)
             ELSE F(-ASinIn(-s, 0, 15708), -4)

\* ln of z / 10^4 for 10^4 <= z < 2 * 10^4, times 10^4:
\* 2 * (u + u^3/3 + u^5/5 + u^7/7 + u^9/9), u = (z - 1) / (z + 1).
LnFix(z) ==
    LET u  == ((z - 10000) * 10000) \div (z + 10000)
        u2 == (u * u) \div 10000
        u3 == (u * u2) \div 10000
        u5 == (u3 * u2) \div 10000
        u7 == (u5 * u2) \div 10000
        u9 == (u7 * u2) \div 10000
    IN  2 * (u + (u3 \div 3) + (u5 \div 5) + (u7 \div 7) + (u9 \div 9))

\* Halve z (units of 10^-4) until it is below 2: <<z, number of halvings>>.
RECURSIVE Halve(_, _)
Halve(z, k) == IF z < 20000 THEN <<z, k>> ELSE Halve(z \div 2, k + 1)

\* np.log: -inf at 0, NaN below.
Ln(a) ==
    IF IsNaN(a) THEN NaN
    ELSE IF a = PosInf THEN PosInf
    ELSE IF a.m < 0 THEN NaN
    ELSE IF a.m = 0 THEN NegInf
    ELSE LET h == Halve(a.m * 10, 0)
             \* ln 2 = 0.6931, ln 10 = 2.3026
             t == LnFix(h[1]) + h[2] * 6931 + (a.x + 3) * 23026
         IN  F(t, -4)

\* ------------------------------------------------------------------------
\* Program state
\* ------------------------------------------------------------------------

VARIABLES
    args,     \* the caller's arrays handed to get_T14 / get_T23:
              \* [p, rprs, a_rs, i, e, w], sequences of equal length
    p0,       \* the period array as the caller built it, in days
    ncalls,   \* number of get_T14 calls made on args so far
    dist,     \* the caller's arrays handed to get_g_distribution:
              \* [rhos, per_dist, rprs_dist, T14_dist, T23_dist]
    call,     \* the call the caller is about to make, with its arguments
    mc,       \* the locals of a running mcmc_fitter call: where it is (pc),
              \* the sampler's walkers (pos), its chain, the plots saved
    ret       \* the last call made: its name and what it returned

vars == <<args, p0, ncalls, dist, call, mc, ret>>

\* Model bounds.
MaxLen   == 2      \* longest input array
MaxCalls == 2      \* get_T14 calls on one period array

NoCall == [op |-> "none"]

\* No mcmc_fitter call is running.
NoRun == [pc |-> "idle"]

\* No arrays: the value of a variable a specification does not use.
NoDist == [rhos |-> <<>>, per_dist |-> <<>>, rprs_dist |-> <<>>,
           T14_dist |-> <<>>, T23_dist |-> <<>>]

\* All sequences over S of length 0 .. n.
SeqUpTo(S, n) == UNION {[1..k -> S] : k \in 0..n}

\* ------------------------------------------------------------------------
\* Transit durations: get_T14, get_T23
\* ------------------------------------------------------------------------

SecondsPerDay == 86400

\* x * (np.pi / 180.0)
Rad(x) == Mul(x, Div(Pi, F(180, 0)))

\* Equation 16: np.sqrt(1-e**2) / (1 + e*np.sin(w*(np.pi/180.0)))
chidot(e, w) ==
    Div(Sqrt(Sub(One, Sq(e))), Add(One, Mul(e, Sin(Rad(w)))))

\* Equation 14 for one element; sgn = 1 for T14 ((1+rprs)**2), -1 for T23
\* ((1-rprs)**2).  p is the period as the loop body holds it.
Duration(p, rprs, a_rs, i, sgn) ==
    LET rs_a == Div(One, a_rs)
        b    == Mul(a_rs, Cos(Rad(i)))
        k1   == IF sgn > 0 THEN Add(One, rprs) ELSE Sub(One, rprs)
    IN  Mul(Div(p, Pi),
            ArcSin(Div(Mul(rs_a, Sqrt(Sub(Sq(k1), Sq(b)))), Sin(Rad(i)))))

\* The loop of get_T14 / get_T23 over a: pnew is the period array after the
\* assignment p[j] = ... of every iteration.  With ecc_prior the function
\* returns inside the first iteration: only p[0] has been assigned, and the
\* value returned is the number T[0] * chidot[0].
DurationLoop(a, pnew, ecc_prior, sgn) ==
    LET nf == Len(a.p)
        T  == [j \in 1..nf |->
                 Duration(pnew[j], a.rprs[j], a.a_rs[j], a.i[j], sgn)]
    IN  IF ecc_prior /\ nf >= 1
        THEN [p    |-> [a.p EXCEPT ![1] = pnew[1]],
              kind |-> "scalar",
              val  |-> Mul(T[1], chidot(a.e[1], a.w[1]))]
        ELSE [p |-> pnew, kind |-> "array", val |-> T]

\* get_T14: p[j] = p[j]*86400
get_T14(a, ecc_prior) ==
    DurationLoop(a, [j \in 1..Len(a.p) |-> Mul(a.p[j], F(SecondsPerDay, 0))],
                 ecc_prior, 1)

\* get_T23: p[j] = p[j]#*86400
get_T23(a, ecc_prior) ==
    DurationLoop(a, [j \in 1..Len(a.p) |-> a.p[j]], ecc_prior, -1)

\* One element of every input array of the duration functions.
DurRows ==
    { [p |-> F(10, 0), rprs |-> F(1, -1), a_rs |-> F(15, 0), i |-> F(89, 0),
       e |-> F(3, -1), w |-> F(90, 0)],
      [p |-> F(3, 0),  rprs |-> F(5, -2), a_rs |-> F(8, 0),  i |-> F(90, 0),
       e |-> F(5, -1), w |-> F(30, 0)],
      [p |-> F(20, 0), rprs |-> F(2, -1), a_rs |-> F(2, 0),  i |-> F(80, 0),
       e |-> F(1, -1), w |-> F(0, 0)] }

\* The arrays of a sequence of rows.
Columns(rows) ==
    [p    |-> [j \in 1..Len(rows) |-> rows[j].p],
     rprs |-> [j \in 1..Len(rows) |-> rows[j].rprs],
     a_rs |-> [j \in 1..Len(rows) |-> rows[j].a_rs],
     i    |-> [j \in 1..Len(rows) |-> rows[j].i],
     e    |-> [j \in 1..Len(rows) |-> rows[j].e],
     w    |-> [j \in 1..Len(rows) |-> rows[j].w]]

Init ==
    /\ \E rows \in SeqUpTo(DurRows, MaxLen) : args = Columns(rows)
    /\ p0 = args.p
    /\ ncalls = 0
    /\ dist = NoDist
    /\ call = NoCall
    /\ mc = NoRun
    /\ ret = NoCall

CallT14(ecc_prior) ==
    /\ ncalls < MaxCalls
    /\ LET r == get_T14(args, ecc_prior)
       IN  /\ args' = [args EXCEPT !.p = r.p]
           /\ ret' = [op |-> "get_T14", ecc_prior |-> ecc_prior,
                      p_in |-> args.p, kind |-> r.kind, val |-> r.val]
    /\ ncalls' = ncalls + 1
    /\ UNCHANGED <<p0, dist, call, mc>>

CallT23(ecc_prior) ==
    /\ LET r == get_T23(args, ecc_prior)
       IN  /\ args' = [args EXCEPT !.p = r.p]
           /\ ret' = [op |-> "get_T23", ecc_prior |-> ecc_prior,
                      p_in |-> args.p, kind |-> r.kind, val |-> r.val]
    /\ UNCHANGED <<p0, ncalls, dist, call, mc>>

Next ==
    \/ \E ecc_prior \in BOOLEAN : CallT14(ecc_prior)
    \/ \E ecc_prior \in BOOLEAN : CallT23(ecc_prior)

Spec == Init /\ [][Next]_vars

\* ------------------------------------------------------------------------
\* Density-ratio engine: get_rho_circ, get_g, get_g_distribution,
\* get_g_from_def, get_e, get_e_from_def
\* ------------------------------------------------------------------------

\* scipy.constants.G = 6.6743e-11
G == F(6674, -14)

\* The closed form of get_rho_circ's then-branch:
\* (((2*(delta**(0.25)))/np.sqrt(T14**2-T23**2))**3)*((3*p)/(c.G*(c.pi**2)))
RhoFormula(rprs, T14, T23, p) ==
    LET delta == Sq(rprs)
        q     == Div(Mul(Two, Sqrt(Sqrt(delta))), Sqrt(Sub(Sq(T14), Sq(T23))))
    IN  Mul(Mul(q, Sq(q)), Div(Mul(F(3, 0), p), Mul(G, Sq(Pi))))

\* A variant of get_rho_circ that tests T14 > T23 where the code tests >=.
get_rho_circ_strict(rprs, T14, T23, p) ==
    IF Gt(T14, T23) THEN RhoFormula(rprs, T14, T23, p) ELSE NaN

get_rho_circ(rprs, T14, T23, p) ==
    IF Ge(T14, T23) THEN RhoFormula(rprs, T14, T23, p) ELSE NaN

\* g = np.cbrt(rho_circ/rho_star)
get_g(rho_circ, rho_star) == Cbrt(Div(rho_circ, rho_star))

\* g = (1+e*np.sin(w))/np.sqrt(1-e**2): w goes to np.sin as it is.
get_g_from_def(e, w) ==
    Div(Add(One, Mul(e, Sin(w))), Sqrt(Sub(One, Sq(e))))

\* The radicand 2*g**4 - g**2*np.cos(2*w) - g**2 - 2*np.sin(w).
Radicand(g, w) ==
    Sub(Sub(Sub(Mul(Two, Sq(Sq(g))), Mul(Sq(g), Cos(Mul(Two, w)))), Sq(g)),
        Mul(Two, Sin(w)))

\* e = (np.sqrt(2)*(np.sqrt(radicand)))/(2*(g**2 + np.sin(w)**2))
get_e(g, w) ==
    Div(Mul(Sqrt(Two), Sqrt(Radicand(g, w))),
        Mul(Two, Add(Sq(g), Sq(Sin(w)))))

\* num = np.sqrt(2)*np.sqrt(radicand); den = 2*(g**2+np.sin(w)**2)
get_e_from_def(g, w) ==
    LET num == Mul(Sqrt(Two), Sqrt(Radicand(g, w)))
        den == Mul(Two, Add(Sq(g), Sq(Sin(w))))
    IN  Div(num, den)

Min(S) == CHOOSE n \in S : \A k \in S : n <= k

\* get_g_distribution loops over range(len(rhos)) and indexes the other four
\* arrays with j: an index past the end of one of them raises IndexError;
\* elements of the four past len(rhos) are never read.
get_g_distribution(d) ==
    LET n     == Len(d.rhos)
        short == Min({Len(d.per_dist), Len(d.rprs_dist),
                      Len(d.T14_dist), Len(d.T23_dist)})
        rho_circ == [j \in 1..n |->
                       get_rho_circ(d.rprs_dist[j], d.T14_dist[j],
                                    d.T23_dist[j], d.per_dist[j])]
    IN  IF n > short
        THEN [raised |-> "IndexError", per_dist |-> d.per_dist]
        ELSE [raised   |-> "none",
              per_dist |-> d.per_dist,        \* per_dist[j] = per_dist[j]
              gs       |-> [j \in 1..n |-> get_g(rho_circ[j], d.rhos[j])],
              rho_circ |-> rho_circ]

\* Inputs of the scalar functions.
RprsVals == {F(1, -1), F(25, -2)}
TVals    == {F(3, 0), F(4, 0), F(5, 0), NaN}
PVals    == {F(8640, 2), F(10, 0)}
RhoVals  == {F(1410, 0), F(5, 3)}
EVals    == {F(5, -1), F(3, -1), F(9, -1)}
WVals    == {F(0, 0), F(30, 0), F(90, 0), F(-45, 0)}

\* One element of each of per_dist, rprs_dist, T14_dist, T23_dist.
DistRows ==
    { [per |-> F(8640, 2), rprs |-> F(1, -1), T14 |-> F(5, 0), T23 |-> F(3, 0)],
      [per |-> F(10, 0),   rprs |-> F(25, -2), T14 |-> F(3, 0), T23 |-> F(4, 0)] }

DistNames == {"per_dist", "rprs_dist", "T14_dist", "T23_dist"}

\* The caller's arrays: rows gives the four sample arrays, cut names the one
\* of them (if any) that is one element short of the others.
DistOf(rhos, rows, cut) ==
    LET n == Len(rows)
        col(name, f(_)) ==
            [j \in 1..(IF name = cut /\ n > 0 THEN n - 1 ELSE n) |-> f(rows[j])]
        per(r)  == r.per
        rprs(r) == r.rprs
        t14(r)  == r.T14
        t23(r)  == r.T23
    IN  [rhos      |-> rhos,
         per_dist  |-> col("per_dist", per),
         rprs_dist |-> col("rprs_dist", rprs),
         T14_dist  |-> col("T14_dist", t14),
         T23_dist  |-> col("T23_dist", t23)]

\* ------------------------------------------------------------------------
\* Posteriors: log_likelihood, log_prior, log_probability (eccentricity) and
\* tfit_log_likelihood, tfit_log_prior, tfit_log_probability (transit fit)
\* ------------------------------------------------------------------------

RECURSIVE SumSeq(_)
SumSeq(s) == IF s = <<>> THEN Zero ELSE Add(Head(s), SumSeq(Tail(s)))

\* -0.5 * np.sum((obs - model) ** 2 / sigma2 + np.log(sigma2)), sigma2 =
\* err ** 2, over arrays obs, model, err of one length.
GaussLogLike(obs, model, err) ==
    Mul(Neg(Half),
        SumSeq([j \in 1..Len(obs) |->
                  LET sigma2 == Sq(err[j])
                  IN  Add(Div(Sq(Sub(obs[j], model[j])), sigma2), Ln(sigma2))]))

\* log_likelihood's model: w, e = theta;
\* model = (1+e*np.sin(w*(np.pi/180.)))/np.sqrt(1-e**2)
GModel(theta) ==
    LET w == theta[1]
        e == theta[2]
    IN  Div(Add(One, Mul(e, Sin(Rad(w)))), Sqrt(Sub(One, Sq(e))))

\* The scalar model is broadcast over the array g.
log_likelihood(theta, g, gerr) ==
    GaussLogLike(g, [j \in 1..Len(g) |-> GModel(theta)], gerr)

log_prior(theta) ==
    LET w == theta[1]
        e == theta[2]
    IN  IF Lt(Zero, e) /\ Lt(e, One) /\ Lt(F(-90, 0), w) /\ Lt(w, F(300, 0))
        THEN Zero ELSE NegInf

\* n_like counts the evaluations of log_likelihood the call made.
log_probability(theta, g, gerr) ==
    LET lp == log_prior(theta)
    IN  IF ~IsFinite(lp) THEN [val |-> NegInf, n_like |-> 0]
        ELSE [val |-> Add(lp, log_likelihood(theta, g, gerr)), n_like |-> 1]

\* planetlc_fitter hands the parameters to batman and returns its light
\* curve.  batman is outside the repository: what it does is an outcome `out`
\* the caller of these operators chooses, a flux array of the length of time
\* or an exception.
planetlc_fitter(out) == out

\* per, rp, a, inc = theta; model = planetlc_fitter(time, per, rp, a, inc, 0.0)
\* n_model counts the calls of planetlc_fitter.
tfit_log_likelihood(theta, flux, flux_err, out) ==
    LET model == planetlc_fitter(out)
    IN  IF model.raised THEN [raised |-> TRUE, n_model |-> 1]
        ELSE [raised |-> FALSE, n_model |-> 1, model |-> model.flux,
              val |-> GaussLogLike(flux, model.flux, flux_err)]

tfit_log_prior(theta) ==
    LET rp  == theta[2]
        inc == theta[4]
    IN  IF Lt(Zero, rp) /\ Lt(rp, One) /\ Lt(Zero, inc) /\ Lt(inc, F(90, 0))
        THEN Zero ELSE NegInf

\* A variant of tfit_log_probability that evaluates the likelihood before it
\* looks at the prior.
tfit_log_probability_eager(theta, flux, flux_err, out) ==
    LET lp == tfit_log_prior(theta)
        ll == tfit_log_likelihood(theta, flux, flux_err, out)
    IN  IF ll.raised THEN ll
        ELSE [raised |-> FALSE, n_model |-> ll.n_model, model |-> ll.model,
              val |-> IF ~IsFinite(lp) THEN NegInf ELSE Add(lp, ll.val)]

tfit_log_probability(theta, flux, flux_err, out) ==
    LET lp == tfit_log_prior(theta)
        ll == tfit_log_likelihood(theta, flux, flux_err, out)
    IN  IF ~IsFinite(lp) THEN [raised |-> FALSE, n_model |-> 0, val |-> NegInf]
        ELSE IF ll.raised THEN ll
        ELSE [raised |-> FALSE, n_model |-> ll.n_model, model |-> ll.model,
              val |-> Add(lp, ll.val)]

\* theta = (w, e) of the eccentricity posterior.
WPrior == WVals \cup {F(-90, 0), F(300, 0), F(310, 0)}
EPrior == EVals \cup {F(0, 0), F(1, 0), F(15, -1), F(-1, -1)}
EccThetas == {<<w, e>> : w \in WPrior, e \in EPrior}

\* One sample of the g distribution and its sigma.
GRows == {[g |-> F(12, -1), gerr |-> F(1, -1)], [g |-> F(9, -1), gerr |-> F(2, 0)]}

\* theta = (per, rp, a, inc) of the transit-fit posterior.
TfitThetas ==
    {<<per, rp, a, inc>> :
        per \in {F(10, 0), F(-1, 0)},
        rp  \in {F(1, -1), F(0, 0), F(12, -1), NaN},
        a   \in {F(15, 0), F(0, 0)},
        inc \in {F(89, 0), F(90, 0), F(0, 0), F(-5, 0)}}

\* One point of the light curve to fit: its flux and flux error.
LcPoints == {[flux |-> F(1, 0), err |-> F(1, -4)],
             [flux |-> F(99, -2), err |-> F(1, -3)]}

\* What batman may answer for a time array of n points.
ModelFlux == {F(1, 0), F(99, -2)}
Outcomes(n) ==
    {[raised |-> FALSE, flux |-> f] : f \in [1..n -> ModelFlux]}
        \cup {[raised |-> TRUE]}

NonEmptySeqUpTo(S, n) == UNION {[1..k -> S] : k \in 1..n}

Field(rows, name) == [j \in 1..Len(rows) |-> rows[j][name]]

\* The g values a caller has: those get_g_from_def returns, and others.
GVals(w) == {get_g_from_def(e, w) : e \in EVals} \cup {F(1, 0), F(5, -1)}

\* The calls of the functions without side effects a caller may make, each
\* with its arguments.
PureCalls ==
    {[op |-> "get_rho_circ", rprs |-> rprs, T14 |-> T14, T23 |-> T23, p |-> p] :
        rprs \in RprsVals, T14 \in TVals, T23 \in TVals, p \in PVals}
    \cup {[op |-> "get_g", rho_circ |-> rc, rho_star |-> rs] :
        rc \in RhoVals \cup {NaN}, rs \in RhoVals}
    \cup {[op |-> "get_g_from_def", e |-> e, w |-> w] : e \in EVals, w \in WVals}
    \cup UNION {{[op |-> name, g |-> g, w |-> w] :
                    g \in GVals(w), name \in {"get_e", "get_e_from_def"}} :
                w \in WVals}
    \cup {[op |-> "log_prior", theta |-> theta] : theta \in EccThetas}
    \cup {[op |-> name, theta |-> theta,
           g |-> Field(rows, "g"), gerr |-> Field(rows, "gerr")] :
        name \in {"log_likelihood", "log_probability"},
        theta \in EccThetas, rows \in NonEmptySeqUpTo(GRows, MaxLen)}
    \cup {[op |-> "tfit_log_prior", theta |-> theta] : theta \in TfitThetas}
    \cup {[op |-> name, theta |-> theta,
           flux |-> Field(lc, "flux"), flux_err |-> Field(lc, "err")] :
        name \in {"tfit_log_likelihood", "tfit_log_probability"},
        theta \in TfitThetas, lc \in NonEmptySeqUpTo(LcPoints, MaxLen)}

\* The caller is about to make one call: of get_g_distribution on its arrays
\* dist, or of one of the scalar functions.
InitPure ==
    /\ args = Columns(<<>>)
    /\ p0 = <<>>
    /\ ncalls = 0
    /\ \/ /\ call = [op |-> "get_g_distribution"]
          /\ \E rhos \in SeqUpTo(RhoVals, MaxLen),
                rows \in SeqUpTo(DistRows, MaxLen),
                cut \in DistNames \cup {"none"} :
                dist = DistOf(rhos, rows, cut)
       \/ /\ call \in PureCalls
          /\ dist = NoDist
    /\ mc = NoRun
    /\ ret = NoCall

Frame == <<args, p0, ncalls, call, mc>>

CallRhoCirc ==
    /\ call.op = "get_rho_circ"
    /\ ret' = [op |-> "get_rho_circ", raised |-> "none",
               val |-> get_rho_circ(call.rprs, call.T14, call.T23, call.p)]
    /\ UNCHANGED <<Frame, dist>>

CallG ==
    /\ call.op = "get_g"
    /\ ret' = [op |-> "get_g", val |-> get_g(call.rho_circ, call.rho_star)]
    /\ UNCHANGED <<Frame, dist>>

CallGDistribution ==
    /\ call.op = "get_g_distribution"
    /\ LET r == get_g_distribution(dist)
       IN  /\ dist' = [dist EXCEPT !.per_dist = r.per_dist]
           /\ ret' = IF r.raised # "none"
                     THEN [op |-> "get_g_distribution", raised |-> r.raised]
                     ELSE [op |-> "get_g_distribution", raised |-> "none",
                           gs |-> r.gs, rho_circ |-> r.rho_circ]
    /\ UNCHANGED Frame

CallGFromDef ==
    /\ call.op = "get_g_from_def"
    /\ ret' = [op |-> "get_g_from_def", val |-> get_g_from_def(call.e, call.w)]
    /\ UNCHANGED <<Frame, dist>>

CallGetE ==
    /\ call.op = "get_e"
    /\ ret' = [op |-> "get_e", val |-> get_e(call.g, call.w)]
    /\ UNCHANGED <<Frame, dist>>

CallGetEFromDef ==
    /\ call.op = "get_e_from_def"
    /\ ret' = [op |-> "get_e_from_def", val |-> get_e_from_def(call.g, call.w)]
    /\ UNCHANGED <<Frame, dist>>

CallLogPrior ==
    /\ call.op = "log_prior"
    /\ ret' = [op |-> "log_prior", val |-> log_prior(call.theta)]
    /\ UNCHANGED <<Frame, dist>>

CallLogLikelihood ==
    /\ call.op = "log_likelihood"
    /\ ret' = [op |-> "log_likelihood", model |-> GModel(call.theta),
               val |-> log_likelihood(call.theta, call.g, call.gerr)]
    /\ UNCHANGED <<Frame, dist>>

CallLogProbability ==
    /\ call.op = "log_probability"
    /\ ret' = [op |-> "log_probability"] @@
              log_probability(call.theta, call.g, call.gerr)
    /\ UNCHANGED <<Frame, dist>>

CallTfitLogPrior ==
    /\ call.op = "tfit_log_prior"
    /\ ret' = [op |-> "tfit_log_prior", val |-> tfit_log_prior(call.theta)]
    /\ UNCHANGED <<Frame, dist>>

CallTfitLogLikelihood ==
    /\ call.op = "tfit_log_likelihood"
    /\ \E out \in Outcomes(Len(call.flux)) :
          ret' = [op |-> "tfit_log_likelihood"] @@
                 tfit_log_likelihood(call.theta, call.flux, call.flux_err, out)
    /\ UNCHANGED <<Frame, dist>>

CallTfitLogProbability ==
    /\ call.op = "tfit_log_probability"
    /\ \E out \in Outcomes(Len(call.flux)) :
          ret' = [op |-> "tfit_log_probability"] @@
                 tfit_log_probability(call.theta, call.flux, call.flux_err, out)
    /\ UNCHANGED <<Frame, dist>>

NextPure ==
    \/ CallRhoCirc
    \/ CallG
    \/ CallGDistribution
    \/ CallGFromDef
    \/ CallGetE
    \/ CallGetEFromDef
    \/ CallLogPrior
    \/ CallLogLikelihood
    \/ CallLogProbability
    \/ CallTfitLogPrior
    \/ CallTfitLogLikelihood
    \/ CallTfitLogProbability

SpecPure == InitPure /\ [][NextPure]_vars


\* ------------------------------------------------------------------------
\* mcmc_fitter
\* ------------------------------------------------------------------------

NWalk    == 2      \* nwalk
NSteps   == 2      \* nsteps
NDiscard == 1      \* ndiscard

\* s with x inserted before the first element that is not below x.
RECURSIVE Insert(_, _)
Insert(x, s) ==
    IF s = <<>> THEN <<x>>
    ELSE IF Le(x, Head(s)) THEN <<x>> \o s
    ELSE <<Head(s)>> \o Insert(x, Tail(s))

RECURSIVE Sort(_)
Sort(s) == IF s = <<>> THEN <<>> ELSE Insert(Head(s), Sort(Tail(s)))

\* np.percentile(a, q), linear interpolation: the value at the index
\* (len(a) - 1) * q / 100 of the sorted sample a (not empty).
Percentile(a, q) ==
    LET s    == Sort(a)
        h    == (Len(a) - 1) * q
        lo   == (h \div 100) + 1
        frac == F(h % 100, -2)
    IN  IF h % 100 = 0 THEN s[lo]
        ELSE Add(s[lo], Mul(frac, Sub(s[lo + 1], s[lo])))

\* np.mean((a, b))
Mean2(a, b) == Div(Add(a, b), Two)

RECURSIVE Flatten(_)
Flatten(ss) == IF ss = <<>> THEN <<>> ELSE Head(ss) \o Flatten(Tail(ss))

\* sampler.get_chain(discard=ndiscard, thin=1, flat=True): the steps after
\* the first ndiscard, the walkers of each step one after the other.
FlatSamples(chain, ndiscard) ==
    Flatten(SubSeq(chain, ndiscard + 1, Len(chain)))

\* flat_samples[:, i]
Column(flat, i) == [n \in 1..Len(flat) |-> flat[n][i]]

\* results.append(np.percentile(flat_samples[:,i], 50))
Results(flat, ndim) ==
    [i \in 1..ndim |-> Percentile(Column(flat, i), 50)]

\* results_errs.append(np.mean((np.percentile(flat_samples[:,i], 16),
\*                              np.percentile(flat_samples[:,i], 84))))
ResultsErrs(flat, ndim) ==
    [i \in 1..ndim |->
        Mean2(Percentile(Column(flat, i), 16), Percentile(Column(flat, i), 84))]

\* The draws of np.random.randn the model considers.
RandnVals == {F(-1, 0), F(1, 0)}

\* pos = solnx + 1e-4 * np.random.randn(nwalk, 4), z the matrix drawn.
InitialPos(guess, z) ==
    [k \in DOMAIN z |->
        [d \in 1..4 |-> Add(guess[d], Mul(F(1, -4), z[k][d]))]]

\* The positions the ensemble sampler may propose for a walker (its moves
\* are emcee's): one inside the prior support, one outside.
Proposals ==
    { <<F(101, -1), F(11, -2), F(155, -1), F(88, 0)>>,
      <<F(10, 0),   F(12, -1), F(15, 0),   F(89, 0)>> }

\* The calls of mcmc_fitter a caller may make.
McmcCalls ==
    {[op |-> "mcmc_fitter",
      guess_transit |-> <<F(10, 0), F(1, -1), F(15, 0), F(89, 0)>>,
      nflux |-> <<F(1, 0), F(99, -2)>>, flux_err |-> <<F(1, -3), F(1, -3)>>,
      nwalk |-> NWalk, nsteps |-> NSteps, ndiscard |-> NDiscard,
      plot_Tburnin |-> b, plot_Tcorner |-> c] : b \in BOOLEAN, c \in BOOLEAN}

InitMcmc ==
    /\ args = Columns(<<>>)
    /\ p0 = <<>>
    /\ ncalls = 0
    /\ dist = NoDist
    /\ call \in McmcCalls
    /\ mc = NoRun
    /\ ret = NoCall

\* Lines 643-647: the walkers' first positions; the sampler is built.
McmcStart ==
    /\ call.op = "mcmc_fitter"
    /\ mc.pc = "idle"
    /\ \E z \in [1..call.nwalk -> [1..4 -> RandnVals]] :
          mc' = [pc |-> "init", pos |-> InitialPos(call.guess_transit, z),
                 k |-> 1, chain |-> <<>>, saved |-> {}]
    /\ UNCHANGED <<args, p0, ncalls, dist, call, ret>>

\* An exception leaves mcmc_fitter: the chain and every local are gone.
Raise(exc) ==
    /\ mc' = [pc |-> "raised", saved |-> mc.saved]
    /\ ret' = [op |-> "mcmc_fitter", raised |-> exc]

\* run_mcmc first evaluates tfit_log_probability at the position of every
\* walker; an exception of the forward model passes through the sampler.
McmcInitEval ==
    /\ mc.pc = "init"
    /\ \E out \in Outcomes(Len(call.nflux)) :
          LET r == tfit_log_probability(mc.pos[mc.k], call.nflux,
                                        call.flux_err, out)
          IN  IF r.raised THEN Raise("planetlc_fitter")
              ELSE /\ mc' = IF mc.k < call.nwalk
                            THEN [mc EXCEPT !.k = mc.k + 1]
                            ELSE [mc EXCEPT !.k = 1, !.pc = "step"]
                   /\ UNCHANGED ret
    /\ UNCHANGED <<args, p0, ncalls, dist, call>>

\* One walker's move of one step: the sampler proposes q, evaluates
\* tfit_log_probability(q), and accepts q or keeps the walker where it is (a
\* proposal of log-probability -inf is never accepted).  After the last
\* walker the step's positions are appended to the chain.
McmcMove ==
    /\ mc.pc = "step"
    /\ \E q \in Proposals, out \in Outcomes(Len(call.nflux)),
          accept \in BOOLEAN :
          LET r    == tfit_log_probability(q, call.nflux, call.flux_err, out)
              pos1 == IF ~r.raised /\ accept /\ r.val # NegInf
                      THEN [mc.pos EXCEPT ![mc.k] = q] ELSE mc.pos
              last == mc.k = call.nwalk
              chain1 == IF last THEN Append(mc.chain, pos1) ELSE mc.chain
          IN  IF r.raised THEN Raise("planetlc_fitter")
              ELSE /\ mc' = [mc EXCEPT
                               !.pos = pos1,
                               !.chain = chain1,
                               !.k = IF last THEN 1 ELSE mc.k + 1,
                               !.pc = IF Len(chain1) = call.nsteps
                                      THEN "sampled" ELSE "step"]
                   /\ UNCHANGED ret
    /\ UNCHANGED <<args, p0, ncalls, dist, call>>

\* Lines 649-684: the plots the flags ask for, then the percentiles.  labels
\* is assigned only inside the plot_Tburnin branch (line 653) and read by the
\* plot_Tcorner branch (line 668).
McmcFinish ==
    /\ mc.pc = "sampled"
    /\ LET flat   == FlatSamples(mc.chain, call.ndiscard)
           ndim   == 4
           burnin == IF call.plot_Tburnin THEN {"lcfit_burnin.png"} ELSE {}
       IN  IF call.plot_Tcorner /\ ~call.plot_Tburnin
           THEN /\ mc' = [pc |-> "raised", saved |-> burnin]
                /\ ret' = [op |-> "mcmc_fitter", raised |-> "NameError"]
           ELSE /\ mc' = [pc |-> "done",
                          saved |-> burnin \cup
                                    (IF call.plot_Tcorner
                                     THEN {"transit_corner.png"} ELSE {})]
                /\ ret' = [op |-> "mcmc_fitter", raised |-> "none",
                           flat_samples |-> flat,
                           results      |-> Results(flat, ndim),
                           results_errs |-> ResultsErrs(flat, ndim),
                           per_dist     |-> Column(flat, 1),
                           rprs_dist    |-> Column(flat, 2),
                           ars_dist     |-> Column(flat, 3),
                           i_dist       |-> Column(flat, 4)]
    /\ UNCHANGED <<args, p0, ncalls, dist, call>>

NextMcmc ==
    \/ McmcStart
    \/ McmcInitEval
    \/ McmcMove
    \/ McmcFinish

SpecMcmc == InitMcmc /\ [][NextMcmc]_vars

\* ------------------------------------------------------------------------
\* Claims about the duration functions (specification Spec)
\* ------------------------------------------------------------------------

IsDurationCall == ret.op \in {"get_T14", "get_T23"}

\* What a duration call returned, as a sequence of entries: a returned
\* number is one entry.
Entries(r) == IF r.kind = "scalar" THEN <<r.val>> ELSE r.val

\* C1: a call of get_T14, get_T23 or get_g_distribution leaves every
\* caller-supplied input array, the period array p / per_dist in
\* particular, holding the values it held before the call.
C1_InputsUnchanged == [][args' = args /\ dist' = dist]_vars

\* C2: with ecc_prior = True and n >= 1 input elements the result has one
\* entry per input element j, equal to the circular duration of element j
\* (the result without the correction, on the same input) times chidot[j].
C2_EccVectorized ==
    (IsDurationCall /\ ret.ecc_prior /\ Len(ret.p_in) >= 1) =>
        LET a    == [args EXCEPT !.p = ret.p_in]
            circ == IF ret.op = "get_T14" THEN get_T14(a, FALSE).val
                    ELSE get_T23(a, FALSE).val
        IN  /\ Len(Entries(ret)) = Len(ret.p_in)
            /\ \A j \in 1..Len(ret.p_in) :
                  Entries(ret)[j] = Mul(circ[j], chidot(a.e[j], a.w[j]))

\* The duration in seconds of element j of the caller's arrays, the period
\* being p0[j] days: Equation 14 with the period scaled by 86400.
SecondsDuration(j, sgn) ==
    Duration(Mul(p0[j], F(SecondsPerDay, 0)),
             args.rprs[j], args.a_rs[j], args.i[j], sgn)

\* C9: for a period array given in days get_T23, like get_T14, returns
\* seconds, whether or not get_T14 was called on the array before.
C9_T23Seconds ==
    (ret.op = "get_T23" /\ ~ret.ecc_prior) =>
        ret.val = [j \in 1..Len(p0) |-> SecondsDuration(j, -1)]

\* The same statement for get_T14 on a fresh array (it holds there).
T14SecondsOnFreshArray ==
    (ret.op = "get_T14" /\ ~ret.ecc_prior /\ ret.p_in = p0) =>
        ret.val = [j \in 1..Len(p0) |-> SecondsDuration(j, 1)]

\* ------------------------------------------------------------------------
\* Claims about the g engine and the posteriors (specification SpecPure)
\* ------------------------------------------------------------------------

\* C4: get_rho_circ returns NaN, and does not raise, whenever T14 < T23; for
\* T14 >= T23 it returns the value of the closed-form density formula.
C4_RhoCircNaNPolicy ==
    ret.op = "get_rho_circ" =>
        /\ ret.raised = "none"
        /\ Lt(call.T14, call.T23) => IsNaN(ret.val)
        /\ Ge(call.T14, call.T23) =>
              ret.val = RhoFormula(call.rprs, call.T14, call.T23, call.p)

\* get_rho_circ has answered NaN for durations with T14 < T23.
C4_Witness ==
    /\ ret.op = "get_rho_circ"
    /\ Lt(call.T14, call.T23)
    /\ IsNaN(ret.val)

DistLengths ==
    {Len(dist.rhos), Len(dist.per_dist), Len(dist.rprs_dist),
     Len(dist.T14_dist), Len(dist.T23_dist)}

\* C5: get_g_distribution called with sequences of unequal lengths fails with
\* an error; it never returns a result.
C5_UnequalLengthsFail ==
    (ret.op = "get_g_distribution" /\ Cardinality(DistLengths) > 1) =>
        ret.raised # "none"

\* The supports of the two priors, as the claims state them.
InTfitSupport(theta) ==
    /\ Lt(Zero, theta[2]) /\ Lt(theta[2], One)
    /\ Lt(Zero, theta[4]) /\ Lt(theta[4], F(90, 0))
InEccSupport(theta) ==
    /\ Lt(Zero, theta[2]) /\ Lt(theta[2], One)
    /\ Lt(F(-90, 0), theta[1]) /\ Lt(theta[1], F(300, 0))

\* C6: outside the prior support tfit_log_probability returns -inf without
\* calling planetlc_fitter, and log_probability returns -inf without
\* evaluating log_likelihood; inside it the likelihood is evaluated exactly
\* once and the value returned is log-prior (0) + log-likelihood.
C6_ShortCircuit ==
    /\ ret.op = "tfit_log_probability" =>
          IF ~InTfitSupport(call.theta)
          THEN ~ret.raised /\ ret.val = NegInf /\ ret.n_model = 0
          ELSE /\ ret.n_model = 1
               /\ ~ret.raised =>
                     ret.val = Add(Zero, GaussLogLike(call.flux, ret.model,
                                                      call.flux_err))
    /\ ret.op = "log_probability" =>
          IF ~InEccSupport(call.theta)
          THEN ret.val = NegInf /\ ret.n_like = 0
          ELSE /\ ret.n_like = 1
               /\ ret.val = Add(Zero, log_likelihood(call.theta, call.g,
                                                     call.gerr))

\* tfit_log_probability has answered -inf outside the prior support, the
\* forward model not called.
C6_Witness ==
    /\ ret.op = "tfit_log_probability"
    /\ ~InTfitSupport(call.theta)
    /\ ret.val = NegInf
    /\ ret.n_model = 0

\* Equality within the tolerance Tol.
Tol == F(1, -2)
ApproxEq(a, b) ==
    /\ IsFinite(a)
    /\ IsFinite(b)
    /\ Le(Sub(a, b), Tol)
    /\ Le(Sub(b, a), Tol)

\* C7: for e in (0,1) and g = get_g_from_def(e, w) with a non-negative
\* radicand, get_e(g, w) and get_e_from_def(g, w) return e within tolerance.
C7_RoundTrip ==
    ret.op \in {"get_e", "get_e_from_def"} =>
        \A e \in EVals :
            ( /\ Lt(Zero, e) /\ Lt(e, One)
              /\ call.g = get_g_from_def(e, call.w)
              /\ Ge(Radicand(call.g, call.w), Zero) )
            => ApproxEq(ret.val, e)

\* The round trip does hold where sin(w) = 0.
RoundTripAtZeroW ==
    (ret.op \in {"get_e", "get_e_from_def"} /\ call.w = Zero) =>
        \A e \in EVals :
            call.g = get_g_from_def(e, call.w) => ApproxEq(ret.val, e)

\* C8: get_g_from_def takes w in degrees: for (e, w_deg) in the prior support
\* the model value inside log_likelihood is get_g_from_def(e, w_deg).
C8_ModelIsGFromDef ==
    (ret.op = "log_likelihood" /\ InEccSupport(call.theta)) =>
        ApproxEq(ret.model, get_g_from_def(call.theta[2], call.theta[1]))

\* ------------------------------------------------------------------------
\* Claims about mcmc_fitter (specification SpecMcmc)
\* ------------------------------------------------------------------------

Returned == ret.op = "mcmc_fitter" /\ ret.raised = "none"

\* C3: for every free parameter i, results[i] is the 50th percentile of the
\* parameter's flattened post-burn-in sample and results_errs[i] is the mean
\* of the gaps P50 - P16 and P84 - P50.
C3_ErrsAreMeanOfGaps ==
    Returned =>
        \A i \in 1..4 :
            LET col == Column(ret.flat_samples, i)
                P16 == Percentile(col, 16)
                P50 == Percentile(col, 50)
                P84 == Percentile(col, 84)
            IN  /\ ret.results[i] = P50
                /\ ret.results_errs[i] = Mean2(Sub(P50, P16), Sub(P84, P50))

\* The first half of C3 alone holds: every point estimate is the median.
ResultsAreMedians ==
    Returned =>
        \A i \in 1..4 :
            ret.results[i] = Percentile(Column(ret.flat_samples, i), 50)

\* C10: a failure of the forward model during a posterior evaluation never
\* aborts the run.
C10_FailureDoesNotAbort ==
    ~(ret.op = "mcmc_fitter" /\ ret.raised = "planetlc_fitter")

\* C11: for each of the four combinations of plot_Tburnin and plot_Tcorner a
\* call of mcmc_fitter whose sampling went through runs to completion: no
\* plot makes it fail, and it returns results, results_errs and the four
\* marginal samples, which are those of the flattened sample whatever the
\* flags are.
C11_PlotFlagsNeverFail ==
    (ret.op = "mcmc_fitter" /\ ret.raised # "planetlc_fitter") =>
        /\ ret.raised = "none"
        /\ mc.pc = "done"
        /\ ret.results = Results(ret.flat_samples, 4)
        /\ ret.results_errs = ResultsErrs(ret.flat_samples, 4)
        /\ ret.per_dist = Column(ret.flat_samples, 1)
        /\ ret.rprs_dist = Column(ret.flat_samples, 2)
        /\ ret.ars_dist = Column(ret.flat_samples, 3)
        /\ ret.i_dist = Column(ret.flat_samples, 4)

\* The three other combinations of the flags do return, with the plots they
\* ask for saved.
OtherFlagsReturn ==
    (mc.pc \in {"done", "raised"} /\ ~(call.plot_Tcorner /\ ~call.plot_Tburnin)) =>
        \/ ret.raised = "planetlc_fitter"
        \/ /\ Returned
           /\ ("lcfit_burnin.png" \in mc.saved) = call.plot_Tburnin
           /\ ("transit_corner.png" \in mc.saved) = call.plot_Tcorner
=============================================================================
